---- MODULE Spec2Model ----
(***************************************************************************)
(* siser: a line-oriented record serialization format, its encoder and     *)
(* decoder (record.go), and the Writer/Reader pair that frames records in  *)
(* a byte stream (serialize.go, reader.go).                                *)
(*                                                                         *)
(* Bytes are integers 0..255, strings and byte slices are sequences of     *)
(* bytes.  Go's 0-based index i is the 1-based index i+1; a search that    *)
(* returns -1 in Go returns 0 here.                                        *)
(***************************************************************************)
EXTENDS Integers, Sequences, FiniteSets, TLC

(***************************************************************************)
(* Byte literals of the format.                                            *)
(***************************************************************************)
NL == 10
Colon == 58
Space == 32
Plus == 43
LongThreshold == 120

\* other bytes used to build inputs
B == [a |-> 97, b |-> 98, k |-> 107, v |-> 118, x |-> 120, one |-> 49,
      hi |-> 200, del |-> 127, us |-> 95, nul |-> 0, minus |-> 45, d0 |-> 48,
      ctl |-> 31]

\* '-' and '0', as strconv reads and writes them
Minus == B.minus
Digit0 == B.d0

(***************************************************************************)
(* Bounds of the model.                                                    *)
(***************************************************************************)
MaxEntries == 2
MaxInLen == 5

Min(a, b) == IF a < b THEN a ELSE b

Last(s) == s[Len(s)]

\* bytes.IndexByte / strings.IndexByte: first position of c in d, 0 if none
IndexByte(d, c) ==
    IF \E i \in 1..Len(d) : d[i] = c
    THEN CHOOSE i \in 1..Len(d) : d[i] = c /\ \A j \in 1..(i-1) : d[j] # c
    ELSE 0

\* strconv.Itoa for n >= 0 (lengths are never negative)
RECURSIVE Itoa(_)
Itoa(n) ==
    IF n < 10 THEN <<Digit0 + n>>
    ELSE Itoa(n \div 10) \o <<Digit0 + (n % 10)>>

IsDigit(c) == c >= Digit0 /\ c <= Digit0 + 9

RECURSIVE DigitsValue(_)
DigitsValue(s) ==
    IF Len(s) = 0 THEN 0
    ELSE 10 * DigitsValue(SubSeq(s, 1, Len(s) - 1)) + (Last(s) - Digit0)

\* strconv.Atoi: optional sign, then at least one decimal digit.
\* [ok |-> FALSE] is the syntax error.
Atoi(s) ==
    LET signed == Len(s) > 0 /\ (s[1] = Minus \/ s[1] = Plus)
        digs   == IF signed THEN Tail(s) ELSE s
    IN  IF Len(digs) = 0 \/ \E i \in 1..Len(digs) : ~IsDigit(digs[i])
        THEN [ok |-> FALSE, n |-> 0]
        ELSE [ok |-> TRUE,
              n  |-> IF signed /\ s[1] = Minus THEN 0 - DigitsValue(digs)
                     ELSE DigitsValue(digs)]

(***************************************************************************)
(* record.go: Record, Entry, the encoder and the decoder.                  *)
(***************************************************************************)
Entry(key, val) == [Key |-> key, Value |-> val]

isASCIIMutNoDel(s) == \A i \in 1..Len(s) : ~(s[i] < 32 \/ s[i] >= 127)

isASCIIMutNoLow(s) == \A i \in 1..Len(s) : ~(s[i] > 127)

isASCII(s) == \A i \in 1..Len(s) : ~(s[i] < 32 \/ s[i] > 127)

nonEmptyEndsWithNewline(s) == Len(s) = 0 \/ s[Len(s)] = NL

needsLongFormatMut121(s) == Len(s) = 0 \/ Len(s) > LongThreshold + 1 \/ ~isASCII(s)

needsLongFormat(s) == Len(s) = 0 \/ Len(s) > LongThreshold \/ ~isASCII(s)

\* one iteration of the loop of Record.Marshal: the bytes appended for e
MarshalEntryMutAlwaysNL(e) ==
    LET long == needsLongFormat(e.Value)
        data == IF long THEN e.Value ELSE <<>>
        sep  == IF long THEN Plus ELSE Space
        val  == IF long THEN Itoa(Len(data)) ELSE e.Value
    IN  e.Key \o <<Colon, sep>> \o val \o <<NL>> \o data
        \o (IF long /\ (Len(data) = 0 \/ Last(data) # NL) THEN <<NL>> ELSE <<>>)

MarshalEntry(e) ==
    LET long == needsLongFormat(e.Value)
        data == IF long THEN e.Value ELSE <<>>
        sep  == IF long THEN Plus ELSE Space
        val  == IF long THEN Itoa(Len(data)) ELSE e.Value
    IN  e.Key \o <<Colon, sep>> \o val \o <<NL>> \o data
        \o (IF ~nonEmptyEndsWithNewline(data) THEN <<NL>> ELSE <<>>)

RECURSIVE Marshal(_)
Marshal(entries) ==
    IF Len(entries) = 0 THEN <<>>
    ELSE MarshalEntry(Head(entries)) \o Marshal(Tail(entries))

\* intStrLen(n) of part_006: the loop `for n > 999 { l++; n = n / 10 }`
RECURSIVE intStrLenLoop(_, _)
intStrLenLoop(n, l) == IF n > 999 THEN intStrLenLoop(n \div 10, l + 1) ELSE l + 2

intStrLenMutShort(n) == IF n <= 9 THEN 1 ELSE 2

\* the int of Go with 32 bits (386, arm); with 64 bits the same happens at
\* -2^63
IntMax == 2147483647
IntMin == (0 - IntMax) - 1

\* -n in two's complement
Neg(n) == IF n = IntMin THEN IntMin ELSE 0 - n

intStrLen(n) ==
    LET m == IF n < 0 THEN Neg(n) ELSE n
        l == IF n < 0 THEN 2 ELSE 1
    IN  IF m <= 9 THEN l
        ELSE IF m <= 99 THEN l + 1
        ELSE IF m <= 999 THEN l + 2
        ELSE intStrLenLoop(m, l)

\* the digits strconv.Itoa writes after the '-' of n < 0
RECURSIVE NegDigits(_)
NegDigits(n) ==
    IF n > 0 - 10 THEN <<Digit0 - n>>
    ELSE LET last == (10 - (n % 10)) % 10
         IN  NegDigits((n + last) \div 10) \o <<Digit0 + last>>

\* strconv.Itoa for every int
ItoaInt(n) == IF n >= 0 THEN Itoa(n) ELSE <<Minus>> \o NegDigits(n)

\* the size the older Record.Marshal (part_006) computes for one entry
EntrySize(e) ==
    Len(e.Key) + 2
    + (IF needsLongFormat(e.Value) THEN intStrLen(Len(e.Value)) ELSE Len(e.Value))
    + 1
    + (IF needsLongFormat(e.Value) THEN Len(e.Value) ELSE 0)
    + (IF ~nonEmptyEndsWithNewline(IF needsLongFormat(e.Value) THEN e.Value ELSE <<>>)
       THEN 1 ELSE 0)

\* n of the older Record.Marshal: the capacity of the buffer it allocates
RECURSIVE MarshalSize(_)
MarshalSize(entries) ==
    IF Len(entries) = 0 THEN 0
    ELSE EntrySize(Head(entries)) + MarshalSize(Tail(entries))

\* the older Record.Marshal: nil for no entries, else the bytes appended to
\* the buffer of capacity n, and a panic when len(buf) != cap(buf)
MarshalSized(entries) ==
    IF Len(entries) = 0 THEN [panic |-> FALSE, buf |-> <<>>]
    ELSE [panic |-> Len(Marshal(entries)) # MarshalSize(entries),
          buf |-> Marshal(entries)]

\* Record.Append with one key/value pair
\* the loop of Record.Append over the pairs args[i], args[i+1]
RECURSIVE AppendLoop(_, _, _)
AppendLoop(entries, args, i) ==
    IF i > Len(args) THEN entries
    ELSE AppendLoop(Append(entries, Entry(args[i], args[i + 1])), args, i + 2)

AppendArgsMutZeroOk(r, args) ==
    IF Len(args) % 2 # 0 THEN [panic |-> TRUE, rec |-> r]
    ELSE [panic |-> FALSE,
          rec |-> [r EXCEPT !.Entries = AppendLoop(r.Entries, args, 1)]]

\* Record.Append(args...): whether it panicked, and the Record as it leaves it
AppendArgs(r, args) ==
    LET n == Len(args)
    IN  IF n = 0 \/ n % 2 # 0 THEN [panic |-> TRUE, rec |-> r]
        ELSE [panic |-> FALSE,
              rec |-> [r EXCEPT !.Entries = AppendLoop(r.Entries, args, 1)]]

RECURSIVE GetMutLast(_, _, _)
GetMutLast(entries, key, i) ==
    IF i > Len(entries) THEN [val |-> <<>>, ok |-> FALSE]
    ELSE IF entries[Len(entries) + 1 - i].Key = key
         THEN [val |-> entries[Len(entries) + 1 - i].Value, ok |-> TRUE]
         ELSE GetMutLast(entries, key, i + 1)

\* Record.Get(key), the range loop from the entry i on
RECURSIVE Get(_, _, _)
Get(entries, key, i) ==
    IF i > Len(entries) THEN [val |-> <<>>, ok |-> FALSE]
    ELSE IF entries[i].Key = key THEN [val |-> entries[i].Value, ok |-> TRUE]
         ELSE Get(entries, key, i + 1)

AppendPair(entries, key, val) == Append(entries, Entry(key, val))

\* What the loop of UnmarshalRecord ends with: kind "rec" (return r, nil),
\* "err" (return nil, err) or "panic" (a slice bound out of range);
\* Entries is what the target record holds at that point.
DecodeResult(kind, entries) == [kind |-> kind, Entries |-> entries]

\* UnmarshalRecord, from the length n parsed by Atoi to the end of the loop
\* body: the checks of n, val = d[:n] (which panics unless 0 <= n <= len(d)),
\* d = d[n:] and the optional newline
UnmarshalLongMutNoNegCheck(d, n) ==
    IF n > Len(d) THEN [kind |-> "err"]
    ELSE IF n < 0 \/ n > Len(d) THEN [kind |-> "panic"]
    ELSE LET d2 == SubSeq(d, n + 1, Len(d))
         IN  [kind |-> "ok", val |-> SubSeq(d, 1, n),
              rest |-> IF Len(d2) > 0 /\ d2[1] = NL THEN Tail(d2) ELSE d2]

UnmarshalLong(d, n) ==
    IF n < 0 THEN [kind |-> "err"]
    ELSE IF n > Len(d) THEN [kind |-> "err"]
    ELSE IF n < 0 \/ n > Len(d) THEN [kind |-> "panic"]
    ELSE LET d2 == SubSeq(d, n + 1, Len(d))
         IN  [kind |-> "ok", val |-> SubSeq(d, 1, n),
              rest |-> IF Len(d2) > 0 /\ d2[1] = NL THEN Tail(d2) ELSE d2]

RECURSIVE UnmarshalLoop(_, _)
UnmarshalLoop(d, entries) ==
    IF Len(d) = 0 THEN DecodeResult("rec", entries)
    ELSE
    LET idx == IndexByte(d, NL) IN
    IF idx = 0 THEN DecodeResult("err", entries)
    ELSE
    LET line == SubSeq(d, 1, idx - 1)
        d1   == SubSeq(d, idx + 1, Len(d))
        ci   == IndexByte(line, Colon)
    IN
    IF ci = 0 THEN DecodeResult("err", entries)
    ELSE
    LET key  == SubSeq(line, 1, ci - 1)
        val0 == SubSeq(line, ci + 1, Len(line))
    IN
    IF Len(val0) < 1 THEN DecodeResult("err", entries)
    ELSE
    LET kind == val0[1]
        val  == Tail(val0)
    IN
    IF kind = Space THEN UnmarshalLoop(d1, AppendPair(entries, key, val))
    ELSE IF kind # Plus THEN DecodeResult("err", entries)
    ELSE
    LET a == Atoi(val) IN
    IF ~a.ok THEN DecodeResult("err", entries)
    ELSE
    LET l == UnmarshalLong(d1, a.n) IN
    IF l.kind # "ok" THEN DecodeResult(l.kind, entries)
    ELSE UnmarshalLoop(l.rest, AppendPair(entries, key, l.val))

\* the zero Record, &Record{}
NewRecord == [Entries |-> <<>>, Name |-> <<>>, Timestamp |-> 0]

\* a nil *Record
NilRecord == [isNil |-> TRUE]

ResetMutKeepName(r) == [r EXCEPT !.Entries = <<>>, !.Timestamp = 0]

\* Record.Reset
Reset(r) == [r EXCEPT !.Entries = <<>>, !.Name = <<>>, !.Timestamp = 0]

UnmarshalRecordMutRecOnErr(d, r) ==
    LET t == IF r = NilRecord THEN NewRecord ELSE Reset(r)
        o == UnmarshalLoop(d, t.Entries)
        filled == [t EXCEPT !.Entries = o.Entries]
    IN  [kind   |-> o.kind,
         rec    |-> filled,
         ptr    |-> IF r = NilRecord THEN "new" ELSE "r",
         target |-> filled]

\* UnmarshalRecord(d, r): r is allocated when nil and reset otherwise, then
\* filled.  rec and kind are the two results (kind "rec": a nil error), ptr
\* is the pointer returned (nil, r itself or a new Record), target is the
\* record the entries were appended to, as the call leaves it.
UnmarshalRecord(d, r) ==
    LET t == IF r = NilRecord THEN NewRecord ELSE Reset(r)
        o == UnmarshalLoop(d, t.Entries)
        filled == [t EXCEPT !.Entries = o.Entries]
    IN  [kind   |-> o.kind,
         rec    |-> IF o.kind = "rec" THEN filled ELSE NilRecord,
         ptr    |-> IF o.kind # "rec" THEN "nil"
                    ELSE IF r = NilRecord THEN "new" ELSE "r",
         target |-> filled]

\* r.Unmarshal(d): UnmarshalRecord(d, r) and the three panicIf checks on its
\* results; r is what the call leaves in the Record
Unmarshal(d, r) ==
    LET o == UnmarshalRecord(d, r)
    IN  [kind  |-> o.kind,
         rec   |-> o.rec,
         ptr   |-> o.ptr,
         target |-> o.target,
         panic |-> \/ o.kind = "panic"
                   \/ o.kind = "rec" /\ o.ptr = "nil"
                   \/ o.kind = "err" /\ o.ptr # "nil"
                   \/ o.ptr # "nil" /\ o.ptr # "r"]

(***************************************************************************)
(* serialize.go: the Record of the Writer and the Reader (parallel Keys    *)
(* and Values, a Name, and the framing flag noSeparator), its encoder and  *)
(* the Writer.                                                             *)
(***************************************************************************)
\* "---\n"
recordSeparatorWithNL == <<Minus, Minus, Minus, NL>>

KVRecord(keys, values, name) ==
    [Keys |-> keys, Values |-> values, Name |-> name, noSeparator |-> FALSE]

ResetKVMutKeepKeys(r) == [r EXCEPT !.Values = <<>>]

\* Record.Reset of serialize.go: Keys and Values are emptied
ResetKV(r) == [r EXCEPT !.Keys = <<>>, !.Values = <<>>]

MarshalKVEntryMutNoNewline(key, val) ==
    LET asData == Len(val) > LongThreshold \/ ~isASCII(val)
    IN  key \o <<Colon>>
        \o (IF asData THEN <<Plus>> \o Itoa(Len(val)) \o <<NL>> ELSE <<Space>>)
        \o val

MarshalKVEntryMutShort(key, val) == key \o <<Colon, Space>> \o val \o <<NL>>

\* the bytes Record.Marshal of serialize.go writes for one key and value
MarshalKVEntry(key, val) ==
    LET asData == Len(val) > LongThreshold \/ ~isASCII(val)
    IN  key \o <<Colon>>
        \o (IF asData THEN <<Plus>> \o Itoa(Len(val)) \o <<NL>> ELSE <<Space>>)
        \o val \o <<NL>>

RECURSIVE MarshalKVEntries(_, _)
MarshalKVEntries(keys, vals) ==
    IF Len(keys) = 0 THEN <<>>
    ELSE MarshalKVEntry(Head(keys), Head(vals))
         \o MarshalKVEntries(Tail(keys), Tail(vals))

\* n of Record.Marshal of serialize.go for one key and value
KVEntrySize(key, val) ==
    Len(key) + 2
    + (IF Len(val) > LongThreshold \/ ~isASCII(val)
       THEN Len(Itoa(Len(val))) + 1 ELSE 0)
    + Len(val) + 1

\* n of Record.Marshal of serialize.go: the length of the buffer it makes
RECURSIVE MarshalKVSizeEntries(_, _)
MarshalKVSizeEntries(keys, vals) ==
    IF Len(keys) = 0 THEN 0
    ELSE KVEntrySize(Head(keys), Head(vals))
         + MarshalKVSizeEntries(Tail(keys), Tail(vals))

MarshalKVSize(r) ==
    MarshalKVSizeEntries(r.Keys, r.Values)
    + (IF ~r.noSeparator THEN Len(recordSeparatorWithNL) ELSE 0)

\* Record.Marshal of serialize.go
MarshalKV(r) ==
    IF Len(r.Keys) = 0 THEN <<>>
    ELSE MarshalKVEntries(r.Keys, r.Values)
         \o (IF ~r.noSeparator THEN recordSeparatorWithNL ELSE <<>>)

WriteNamedBytesMutAlwaysPad(d, name) ==
    (IF name = <<>> THEN Itoa(Len(d)) \o <<NL>>
     ELSE Itoa(Len(d)) \o <<Space>> \o name \o <<NL>>) \o d \o <<NL>>

\* Writer.WriteNamed: the bytes handed to the stream in one Write
WriteNamedBytes(d, name) ==
    LET header == IF name = <<>> THEN Itoa(Len(d)) \o <<NL>>
                  ELSE Itoa(Len(d)) \o <<Space>> \o name \o <<NL>>
        d2 == header \o d
    IN  IF Last(d2) # NL THEN d2 \o <<NL>> ELSE d2

\* Writer.WriteRecord: the record as the call leaves it, and the bytes written
WriteRecordBytes(style, r) ==
    LET r2 == [r EXCEPT !.noSeparator = (style = "SizePrefix")]
        d  == MarshalKV(r2)
    IN  [rec   |-> r2,
         bytes |-> IF style = "SizePrefix" THEN WriteNamedBytes(d, r2.Name) ELSE d]

(***************************************************************************)
(* bufio.Reader over an io.Reader, as reader.go uses it.  buf holds the    *)
(* bytes buffered and not yet consumed, src the bytes the underlying       *)
(* stream has not delivered yet.  One Read of the underlying stream        *)
(* delivers at most chunk bytes, and (0, io.EOF) when none is left, as     *)
(* bytes.Buffer and os.File do.  The streams of the model are shorter than *)
(* bufio's own buffer of 4096 bytes.                                       *)
(***************************************************************************)
BufReader(buf, src) == [buf |-> buf, src |-> src]

Zeros(n) == [i \in 1..n |-> B.nul]

\* the element of a one-element set: in Only({ e : x \in {v} }) the value v
\* is computed once for all the places where e uses it
Only(S) == CHOOSE x \in S : TRUE

\* bufio.Reader.fill: one Read of the underlying stream
Fill(b, chunk) ==
    LET k == Min(chunk, Len(b.src))
    IN  BufReader(b.buf \o SubSeq(b.src, 1, k), SubSeq(b.src, k + 1, Len(b.src)))

\* bufio.Reader.ReadString('\n'): the bytes up to and including the first
\* newline, or all that is left and io.EOF
RECURSIVE ReadString(_, _)
ReadString(b, chunk) ==
    LET i == IndexByte(b.buf, NL) IN
    IF i > 0
    THEN [line |-> SubSeq(b.buf, 1, i), err |-> "nil",
          br |-> BufReader(SubSeq(b.buf, i + 1, Len(b.buf)), b.src)]
    ELSE IF Len(b.src) = 0
    THEN [line |-> b.buf, err |-> "EOF", br |-> BufReader(<<>>, b.src)]
    ELSE Only({ ReadString(f, chunk) : f \in {Fill(b, chunk)} })

\* bufio.Reader.Read(p) with len(p) = n: the bytes are taken from what is
\* buffered, or else from at most one Read of the underlying stream, so
\* fewer than n bytes may be returned with a nil error
Read(b, chunk, n) ==
    IF n = 0 THEN [d |-> <<>>, err |-> "nil", br |-> b]
    ELSE IF Len(b.buf) = 0 /\ Len(b.src) = 0
    THEN [d |-> <<>>, err |-> "EOF", br |-> b]
    ELSE Only({ [d |-> SubSeq(f.buf, 1, Min(n, Len(f.buf))), err |-> "nil",
                 br |-> BufReader(SubSeq(f.buf, Min(n, Len(f.buf)) + 1, Len(f.buf)),
                                  f.src)] :
                f \in {IF Len(b.buf) = 0 THEN Fill(b, chunk) ELSE b} })

\* io.ReadFull(r, d) with len(d) = n: Read until n bytes are there; io.EOF
\* when none was read, io.ErrUnexpectedEOF when some were
RECURSIVE ReadFullLoop(_, _, _, _)
ReadFullLoop(b, chunk, n, got) ==
    IF Len(got) >= n THEN [d |-> got, err |-> "nil", br |-> b]
    ELSE Only({ IF r.err # "nil"
                THEN [d |-> got,
                      err |-> IF Len(got) > 0 THEN "ErrUnexpectedEOF" ELSE r.err,
                      br |-> r.br]
                ELSE Only({ ReadFullLoop(r.br, chunk, n, g) : g \in {got \o r.d} }) :
                r \in {Read(b, chunk, n - Len(got))} })

ReadFull(b, chunk, n) == ReadFullLoop(b, chunk, n, <<>>)

\* strings.SplitN(line, sep, 2)
SplitN2(line, sep) ==
    LET i == IndexByte(line, sep)
    IN  IF i = 0 THEN <<line>>
        ELSE <<SubSeq(line, 1, i - 1), SubSeq(line, i + 1, Len(line))>>

(***************************************************************************)
(* reader.go: ReadSizePrefixed and ReadRecord.  err is "nil", "EOF"       *)
(* (io.EOF), "ErrUnexpectedEOF", "format" (fmt.Errorf), "atoi" (the error  *)
(* of strconv.Atoi) or "panic" (the call does not return).                 *)
(***************************************************************************)
SizePrefixedError(err, b) ==
    [d |-> <<>>, n |-> 0, name |-> <<>>, err |-> err, br |-> b]

\* ReadSizePrefixed, from the conversion of the size on: a is the result of
\* strconv.Atoi(size), nBytesRead counts the lines read so far
ReadSizePrefixedPayload(b, chunk, a, name, nBytesRead) ==
    IF ~a.ok THEN SizePrefixedError("atoi", b)
    ELSE IF a.n < 0 THEN SizePrefixedError("panic", b)
    ELSE Only({ IF r.err # "nil" THEN SizePrefixedError(r.err, r.br)
                ELSE [d |-> r.d \o Zeros(a.n - Len(r.d)), n |-> nBytesRead + a.n,
                      name |-> name, err |-> "nil", br |-> r.br] :
                r \in {Read(b, chunk, a.n)} })

\* ReadSizePrefixed, from the header line on (line has lost its '\n')
ReadSizePrefixedBody(b, chunk, line, nBytesRead) ==
    Only({ ReadSizePrefixedPayload(b, chunk, a,
               IF Len(parts) > 1 THEN parts[2] ELSE <<>>, nBytesRead) :
           parts \in {SplitN2(line, Space)},
           a \in {Atoi(SplitN2(line, Space)[1])} })

\* ReadSizePrefixed, after the first line l1 was read
ReadSizePrefixedLines(l1, chunk) ==
    IF l1.err # "nil" THEN SizePrefixedError(l1.err, l1.br)
    ELSE IF Len(l1.line) = 1
    THEN Only({ IF l2.err # "nil" THEN SizePrefixedError(l2.err, l2.br)
                ELSE ReadSizePrefixedBody(l2.br, chunk,
                         SubSeq(l2.line, 1, Len(l2.line) - 1), 1 + Len(l2.line)) :
                l2 \in {ReadString(l1.br, chunk)} })
    ELSE ReadSizePrefixedBody(l1.br, chunk,
             SubSeq(l1.line, 1, Len(l1.line) - 1), Len(l1.line))

ReadSizePrefixed(b, chunk) ==
    Only({ ReadSizePrefixedLines(l1, chunk) : l1 \in {ReadString(b, chunk)} })

\* the local state of ReadRecord's loop: the entries appended so far,
\* nBytesRead, nBytesRead2 and rec.noSeparator
LoopState(keys, values, nBytesRead, nBytesRead2, noSeparator) ==
    [Keys |-> keys, Values |-> values, nBytesRead |-> nBytesRead,
     nBytesRead2 |-> nBytesRead2, noSeparator |-> noSeparator]

AppendEntry(st, key, val, n) ==
    [st EXCEPT !.Keys = Append(@, key), !.Values = Append(@, val),
               !.nBytesRead = @ + n]

RecordResult(n, err, st, r) ==
    [n |-> n, err |-> err, Keys |-> st.Keys, Values |-> st.Values, r |-> r]

RECURSIVE ReadRecordLoop(_, _, _)

\* the rest of the loop body for a long-form entry: a is the result of
\* strconv.Atoi(val)
ReadRecordLong(r, chunk, st, key, a) ==
    IF ~a.ok THEN RecordResult(0, "atoi", st, r)
    ELSE IF a.n + 1 < 0 THEN RecordResult(0, "panic", st, r)
    ELSE Only({ IF f.err # "nil" THEN RecordResult(0, f.err, st, f.br)
                ELSE IF Len(f.d) = 0 THEN RecordResult(0, "panic", st, f.br)
                ELSE Only({ ReadRecordLoop(f.br, chunk, st2) :
                            st2 \in {AppendEntry(st, key,
                                         SubSeq(f.d, 1, Len(f.d) - 1), Len(f.d))} }) :
                f \in {ReadFull(r, chunk, a.n + 1)} })

\* the rest of the loop body for the line split in parts at the first ':'
ReadRecordEntry(r, chunk, st, parts) ==
    IF Len(parts) # 2 THEN RecordResult(0, "format", st, r)
    ELSE IF Len(parts[2]) < 1 THEN RecordResult(0, "format", st, r)
    ELSE IF parts[2][1] = Space
    THEN Only({ ReadRecordLoop(r, chunk, st2) :
                st2 \in {AppendEntry(st, parts[1], Tail(parts[2]), 0)} })
    ELSE IF parts[2][1] # Plus THEN RecordResult(0, "format", st, r)
    ELSE Only({ ReadRecordLong(r, chunk, st, parts[1], a) :
                a \in {Atoi(Tail(parts[2]))} })

\* the loop body once the line l was read
ReadRecordLine(l, chunk, st) ==
    IF l.err = "EOF"
    THEN IF Len(st.Keys) # Len(st.Values)
         THEN RecordResult(0, "format", st, l.br)
         ELSE RecordResult(st.nBytesRead2,
                           IF st.noSeparator THEN "nil" ELSE "EOF", st, l.br)
    ELSE IF Len(l.line) < 3 \/ Last(l.line) # NL
    THEN RecordResult(0, "format", st, l.br)
    ELSE IF ~st.noSeparator /\ l.line = recordSeparatorWithNL
    THEN RecordResult(st.nBytesRead + Len(l.line), "nil", st, l.br)
    ELSE Only({ ReadRecordEntry(l.br, chunk, st2, parts) :
                st2 \in {[st EXCEPT !.nBytesRead = @ + Len(l.line)]},
                parts \in {SplitN2(SubSeq(l.line, 1, Len(l.line) - 1), Colon)} })

\* the for loop of ReadRecord over the reader r
ReadRecordLoop(r, chunk, st) ==
    Only({ ReadRecordLine(l, chunk, st) : l \in {ReadString(r, chunk)} })

\* ReadRecord once the frame sp was read (rec.noSeparator)
ReadRecordFramed(sp, rec) ==
    IF sp.err # "nil"
    THEN [n |-> 0, err |-> sp.err, rec |-> rec, br |-> sp.br]
    ELSE Only({ [n |-> o.n, err |-> o.err,
                 rec |-> [rec EXCEPT !.Keys = o.Keys, !.Values = o.Values,
                                     !.Name = sp.name],
                 br |-> sp.br] :
                o \in {ReadRecordLoop(BufReader(<<>>, sp.d), Len(sp.d) + 1,
                                      LoopState(rec.Keys, rec.Values, 0, sp.n,
                                                TRUE))} })

\* ReadRecord(br, rec): n and err are the results, rec and br what the call
\* leaves in the record and in the reader
ReadRecord(b, chunk, rec0) ==
    IF rec0.noSeparator
    THEN Only({ ReadRecordFramed(sp, ResetKV(rec0)) :
                sp \in {ReadSizePrefixed(b, chunk)} })
    ELSE Only({ [n |-> o.n, err |-> o.err,
                 rec |-> [rec0 EXCEPT !.Keys = o.Keys, !.Values = o.Values],
                 br |-> o.r] :
                o \in {ReadRecordLoop(b, chunk,
                                      LoopState(ResetKV(rec0).Keys,
                                                ResetKV(rec0).Values,
                                                0, 0, FALSE))} })

(***************************************************************************)
(* Inputs of the encoder and the decoder.                                  *)
(***************************************************************************)
A120 == [i \in 1..LongThreshold |-> B.a]
A121 == [i \in 1..(LongThreshold + 1) |-> B.a]

\* keys: plain text without ':' and newline ("key", "k2"), and the empty key
Keys == { <<107, 101, 121>>, <<B.k, 50>>, <<>> }

\* 1000 ASCII bytes: a length of four digits
A1000 == [i \in 1..1000 |-> B.a]

\* 120 bytes of which the first is over 127
H120 == [i \in 1..LongThreshold |-> IF i = 1 THEN B.hi ELSE B.a]

\* values: empty, short ("val"), with an embedded and a trailing newline, a lone
\* newline, non-ASCII, text that looks like a header, at and over the threshold,
\* of 1000 bytes, the bytes 31 and 127 at the edges of the short-form range
Vals == { <<>>, <<B.v, B.a, 108>>, <<B.a, NL, B.b>>, <<B.x, NL>>, <<NL>>, <<B.hi>>,
          <<B.k, Colon, Space, B.v>>, A120, A121, H120, A1000,
          <<B.ctl>>, <<B.del>> }

\* argument lists of Append with 0, 1, 3 and 4 strings:
\* (), ("key"), ("key", "val", "k2"), ("key", "val", "key", "a\nb"),
\* ("k2", "", "", "x\n")
ArgLists ==
    { <<>>, << <<107, 101, 121>> >>,
      << <<107, 101, 121>>, <<B.v, B.a, 108>>, <<B.k, 50>> >>,
      << <<107, 101, 121>>, <<B.v, B.a, 108>>, <<107, 101, 121>>, <<B.a, NL, B.b>> >>,
      << <<B.k, 50>>, <<>>, <<>>, <<B.x, NL>> >> }

\* keys looked up: those of the entries, "Key" and "ke"
GetKeys == Keys \cup { <<75, 101, 121>>, <<107, 101>> }

\* arguments of intStrLen: 0, the powers of ten and their predecessors with
\* both signs, the numbers of TestIntStrLen, the largest and the smallest int
IntInputs ==
    UNION { { p, p - 1, 0 - p, 1 - p } : p \in { 10^k : k \in 0..9 } }
        \cup { 34, 823, 3241, 0 - 89, 0 - 319, 0 - 2341,
               IntMax, IntMin, IntMin + 1 }

Alphabet == { B.a, Colon, Space, Plus, NL, B.one, Minus }

\* "ha", "ha\n", "ha:\n", "ha:_\n", "ha:+32\nma", "ha:+2\nmara", "ha:+los\nma"
InvalidRecords ==
    { <<104, 97>>, <<104, 97, NL>>, <<104, 97, Colon, NL>>,
      <<104, 97, Colon, B.us, NL>>,
      <<104, 97, Colon, Plus, 51, 50, NL, 109, 97>>,
      <<104, 97, Colon, Plus, 50, NL, 109, 97, 114, 97>>,
      <<104, 97, Colon, Plus, 108, 111, 115, NL, 109, 97>> }

\* a Record in use, with an entry ("_", "_"), the name "a b" and a timestamp
UsedRecord ==
    [Entries |-> <<Entry(<<B.us>>, <<B.us>>)>>, Name |-> <<B.a, Space, B.b>>,
     Timestamp |-> 5]

RawInputs == UNION { [1..n -> Alphabet] : n \in 0..MaxInLen } \cup InvalidRecords

(***************************************************************************)
(* Inputs of the Writer: records and blobs with their names, and the sizes *)
(* of the chunks in which a stream is delivered to the Reader.             *)
(***************************************************************************)
MaxWrites == 2
MaxChunk == 3

\* the size of the buffer of bufio.NewReader: the most one fill reads
defaultBufSize == 4 * 1024

NameAB == <<B.a, Space, B.b>>

\* {}, {k: v} named "a b", {k: <three bytes over 127>, x: v}
StreamRecords ==
    { KVRecord(<<>>, <<>>, <<>>),
      KVRecord(<< <<B.k>> >>, << <<B.v>> >>, NameAB),
      KVRecord(<< <<B.k>>, <<B.x>> >>, << <<B.hi, B.hi, B.hi>>, <<B.v>> >>, <<>>) }

\* "hey\n", "ho" and the empty payload
Payloads == { <<104, 101, 121, NL>>, <<104, 111>>, <<>> }

\* the payloads written with the name "a b": "ho" and the empty payload
NamedPayloads == { <<104, 111>>, <<>> }

Styles == { "Separator", "SizePrefix" }

Chunks == (1..MaxChunk) \cup {defaultBufSize}

(***************************************************************************)
(* Byte streams that no Writer wrote, for a Reader over arbitrary input.   *)
(***************************************************************************)
MaxRawLen == 4

\* frame headers and long-form entry headers whose length is negative or not
\* a number: "-1\n", "x\n", "-1 a\nab\n", "1x\nab\n", "6\nk:+-1\n", "k:+-1\n", "k:+-2\nab\n", "k:+x\nab\n"
BadLengths ==
    { <<Minus, 49, NL>>,
      <<120, NL>>,
      <<Minus, 49, Space, 97, NL, 97, 98, NL>>,
      <<49, 120, NL, 97, 98, NL>>,
      <<54, NL, 107, Colon, Plus, Minus, 49, NL>>,
      <<107, Colon, Plus, Minus, 49, NL>>,
      <<107, Colon, Plus, Minus, 50, NL, 97, 98, NL>>,
      <<107, Colon, Plus, 120, NL, 97, 98, NL>> }

\* entries in long form with and without the newline after the value, of
\* length 0, and with a value that ends in a newline:
\* "a:+1\nb\n", "a:+1\nb", "a:+1\nba: c\n", "a:+0\n\n", "a:+0\n", "a:+2\nb\n\n", "a:+2\nb\n", "a: b\na:+1\nc\n"
LongForms ==
    { <<97, Colon, Plus, 49, NL, 98, NL>>,
      <<97, Colon, Plus, 49, NL, 98>>,
      <<97, Colon, Plus, 49, NL, 98, 97, Colon, Space, 99, NL>>,
      <<97, Colon, Plus, 48, NL, NL>>,
      <<97, Colon, Plus, 48, NL>>,
      <<97, Colon, Plus, 50, NL, 98, NL, NL>>,
      <<97, Colon, Plus, 50, NL, 98, NL>>,
      <<97, Colon, Space, 98, NL, 97, Colon, Plus, 49, NL, 99, NL>> }

RawEntries ==
    UNION { [1..n -> Alphabet] : n \in 0..MaxRawLen } \cup BadLengths \cup LongForms

\* two Records with "---" as a key, as a value and as a line inside a value:
\* {"---": "a\n---\nb", "": "---"} and {"k": "\n---\n"}
SentinelRecords ==
    << KVRecord(<< <<Minus, Minus, Minus>>, <<>> >>,
                << <<B.a, NL, Minus, Minus, Minus, NL, B.b>>,
                   <<Minus, Minus, Minus>> >>, <<>>),
       KVRecord(<< <<B.k>> >>, << <<NL, Minus, Minus, Minus, NL>> >>, <<>>) >>

\* what a Writer in separator mode writes for them
SentinelStream == MarshalKV(SentinelRecords[1]) \o MarshalKV(SentinelRecords[2])

\* every sequence of entries bytes, alone and followed by the line "---\n"
RawStreams ==
    RawEntries \cup { e \o recordSeparatorWithNL : e \in RawEntries }
        \cup {SentinelStream}

\* one byte per Read, or all there is
RawChunks == { 1, defaultBufSize }

(***************************************************************************)
(* State.                                                                  *)
(*   rec      the Record being filled and encoded                          *)
(*   buf      the bytes handed to the decoder                              *)
(*   fromRec  whether buf is the output of rec.Marshal()                   *)
(*   res      the results of the decoder and the Record it filled          *)
(*   recCall  the call of Append, Get or intStrLen just made: its         *)
(*            arguments, rec before it, and what it returned              *)
(*   cpc      "build", "encoded", "written" (by a Writer), "decoded"      *)
(*            (into a new Record) or "decodedInto" (into a Record in      *)
(*            use), "looked" (Get), "measured" (intStrLen); "panic" when  *)
(*            a call panicked                                              *)
(*   wr       the Writer                                                   *)
(*   stream   the bytes the Writer has written to its io.Writer            *)
(*   wlog     the writes so far: what was written, where, and the byte     *)
(*            count the call returned                                      *)
(*   phase    "write", then "read" once a Reader is made over the stream; *)
(*            "panic" when a read call panicked                            *)
(*   rd       the Reader                                                   *)
(*   chunk    how many bytes one Read of the Reader's io.Reader delivers   *)
(*   cut      how many bytes of the stream the Reader's io.Reader holds    *)
(*   ret      what the last call of ReadNext or ReadNextData returned      *)
(*   lastCall "none", "ReadNext" or "ReadNextData"                         *)
(*   rlog     what the calls made before an error showed to the caller     *)
(***************************************************************************)
VARIABLES rec, buf, fromRec, res, cpc, recCall,
          wr, stream, wlog, phase, rd, chunk, cut, ret, lastCall, rlog

codecVars == <<rec, buf, fromRec, res, cpc, recCall>>

streamVars == <<wr, stream, wlog, phase, rd, chunk, cut, ret, lastCall, rlog>>

vars == <<rec, buf, fromRec, res, cpc, recCall,
          wr, stream, wlog, phase, rd, chunk, cut, ret, lastCall, rlog>>

RecordCall(op, args, before, panic, val, ok) ==
    [op |-> op, args |-> args, before |-> before, panic |-> panic,
     val |-> val, ok |-> ok]

NoCall == RecordCall("none", <<>>, NilRecord, FALSE, <<>>, FALSE)

NoResult ==
    [kind |-> "none", rec |-> NilRecord, ptr |-> "nil", target |-> NilRecord]

NoReader == [isNil |-> TRUE]

\* NewWriter
NewWriter == [WriteStyle |-> "SizePrefix"]

\* NewReader over the bytes src
NewReader(src) ==
    [Format |-> "Separator", br |-> BufReader(<<>>, src),
     rec |-> KVRecord(<<>>, <<>>, <<>>), Data |-> <<>>, Name |-> <<>>,
     err |-> "nil", currRecPos |-> 0, nextRecPos |-> 0]

CodecIdle ==
    /\ rec = NewRecord
    /\ buf = <<>>
    /\ fromRec = FALSE
    /\ res = NoResult
    /\ cpc = "build"
    /\ recCall = NoCall

StreamIdle ==
    /\ wr = NewWriter
    /\ stream = <<>>
    /\ wlog = <<>>
    /\ phase = "write"
    /\ rd = NoReader
    /\ chunk = defaultBufSize
    /\ cut = 0
    /\ ret = FALSE
    /\ lastCall = "none"
    /\ rlog = <<>>

InitCodec == CodecIdle /\ StreamIdle

\* r.Append(key, val)
RecordAppend(key, val) ==
    /\ cpc = "build"
    /\ Len(rec.Entries) < MaxEntries
    /\ rec' = [rec EXCEPT !.Entries = AppendPair(rec.Entries, key, val)]
    /\ recCall' = RecordCall("Append", <<key, val>>, rec, FALSE, <<>>, FALSE)
    /\ UNCHANGED <<buf, fromRec, res, cpc>>
    /\ UNCHANGED streamVars

\* r.Append(args...) with any number of arguments
DoAppend(args) ==
    /\ cpc = "build"
    /\ Len(rec.Entries) < MaxEntries
    /\ \E o \in {AppendArgs(rec, args)} :
          /\ rec' = o.rec
          /\ cpc' = IF o.panic THEN "panic" ELSE cpc
          /\ recCall' = RecordCall("Append", args, rec, o.panic, <<>>, FALSE)
    /\ UNCHANGED <<buf, fromRec, res>>
    /\ UNCHANGED streamVars

\* v, ok := r.Get(key), as the last call of a run
DoGet(key) ==
    /\ cpc = "build"
    /\ \E o \in {Get(rec.Entries, key, 1)} :
          recCall' = RecordCall("Get", <<key>>, rec, FALSE, o.val, o.ok)
    /\ cpc' = "looked"
    /\ UNCHANGED <<rec, buf, fromRec, res>>
    /\ UNCHANGED streamVars

\* d := r.Marshal()
DoMarshal ==
    /\ cpc = "build"
    /\ buf' = Marshal(rec.Entries)
    /\ fromRec' = TRUE
    /\ cpc' = "encoded"
    /\ recCall' = NoCall
    /\ UNCHANGED <<rec, res>>
    /\ UNCHANGED streamVars

\* d := r.Marshal() of the older record.go, which allocates the buffer once
DoMarshalSized ==
    /\ cpc = "build"
    /\ \E m \in {MarshalSized(rec.Entries)} :
          /\ buf' = m.buf
          /\ cpc' = IF m.panic THEN "panic" ELSE "encoded"
    /\ fromRec' = TRUE
    /\ recCall' = NoCall
    /\ UNCHANGED <<rec, res>>
    /\ UNCHANGED streamVars

\* the Record of serialize.go with the keys and values of rec
RECURSIVE EntryKeys(_)
EntryKeys(entries) ==
    IF Len(entries) = 0 THEN <<>>
    ELSE <<Head(entries).Key>> \o EntryKeys(Tail(entries))

RECURSIVE EntryValues(_)
EntryValues(entries) ==
    IF Len(entries) = 0 THEN <<>>
    ELSE <<Head(entries).Value>> \o EntryValues(Tail(entries))

AsKVRecord(entries, noSeparator) ==
    [KVRecord(EntryKeys(entries), EntryValues(entries), <<>>)
        EXCEPT !.noSeparator = noSeparator]

\* NewWriter(f).WriteRecord(r) for the Record with the entries of rec and the
\* name given, f empty: buf is what f holds afterwards
DoWriteRecord(name) ==
    /\ cpc = "build"
    /\ \E w \in {WriteRecordBytes(NewWriter.WriteStyle,
                    [AsKVRecord(rec.Entries, FALSE) EXCEPT !.Name = name])} :
          buf' = w.bytes
    /\ fromRec' = TRUE
    /\ cpc' = "written"
    /\ recCall' = NoCall
    /\ UNCHANGED <<rec, res>>
    /\ UNCHANGED streamVars

\* intStrLen(n)
DoIntStrLen(n) ==
    /\ cpc = "build"
    /\ rec = NewRecord
    /\ recCall' = RecordCall("intStrLen", <<n>>, NilRecord, FALSE,
                             intStrLen(n), FALSE)
    /\ cpc' = "measured"
    /\ UNCHANGED <<rec, buf, fromRec, res>>
    /\ UNCHANGED streamVars

\* the caller hands arbitrary bytes to the decoder
Feed ==
    /\ cpc = "build"
    /\ rec = NewRecord
    /\ \E d \in RawInputs : buf' = d
    /\ fromRec' = FALSE
    /\ cpc' = "encoded"
    /\ recCall' = NoCall
    /\ UNCHANGED <<rec, res>>
    /\ UNCHANGED streamVars

\* UnmarshalRecord(d, nil)
DoUnmarshal ==
    /\ cpc = "encoded"
    /\ res' = UnmarshalRecord(buf, NilRecord)
    /\ cpc' = "decoded"
    /\ UNCHANGED <<rec, buf, fromRec, recCall>>
    /\ UNCHANGED streamVars

\* err := r.Unmarshal(d) on a Record r that is in use
DoUnmarshalInto ==
    /\ cpc = "encoded"
    /\ \E o \in {Unmarshal(buf, UsedRecord)} :
          /\ res' = [kind |-> o.kind, rec |-> o.rec, ptr |-> o.ptr,
                     target |-> o.target]
          /\ cpc' = IF o.panic THEN "panic" ELSE "decodedInto"
    /\ UNCHANGED <<rec, buf, fromRec, recCall>>
    /\ UNCHANGED streamVars

NextCodec ==
    \/ \E key \in Keys, val \in Vals : RecordAppend(key, val)
    \/ \E args \in ArgLists : DoAppend(args)
    \/ \E key \in GetKeys : DoGet(key)
    \/ DoMarshal
    \/ DoMarshalSized
    \/ \E n \in IntInputs : DoIntStrLen(n)
    \/ \E name \in {<<>>, NameAB} : DoWriteRecord(name)
    \/ Feed
    \/ DoUnmarshal
    \/ DoUnmarshalInto

SpecCodec == InitCodec /\ [][NextCodec]_vars

(***************************************************************************)
(* The Writer and the Reader over one stream.                              *)
(***************************************************************************)
InitStream == StreamIdle /\ CodecIdle

WriteEntryMutPayloadCount(kind, r, d, name, bytes) ==
    [kind |-> kind, Keys |-> r.Keys, Values |-> r.Values, Name |-> name,
     noSeparator |-> r.noSeparator,
     d |-> d, off |-> Len(stream), n |-> Len(d)]

\* what a write call was given, the Record r as the call left it (its fields
\* and its noSeparator), where the stream stood, and the count n that
\* w.w.Write returned for the bytes handed to it
WriteEntry(kind, r, d, name, bytes) ==
    [kind |-> kind, Keys |-> r.Keys, Values |-> r.Values, Name |-> name,
     noSeparator |-> r.noSeparator,
     d |-> d, off |-> Len(stream), n |-> Len(bytes)]

\* w.WriteStyle = s, before the first write
ConfigWriter(s) ==
    /\ phase = "write"
    /\ wlog = <<>>
    /\ s # wr.WriteStyle
    /\ wr' = [wr EXCEPT !.WriteStyle = s]
    /\ UNCHANGED <<stream, wlog, phase, rd, chunk, cut, ret, lastCall, rlog>>
    /\ UNCHANGED codecVars

\* w.WriteRecord(r)
WriteRecord(r) ==
    /\ phase = "write"
    /\ Len(wlog) < MaxWrites
    /\ LET w == WriteRecordBytes(wr.WriteStyle, r) IN
        /\ stream' = stream \o w.bytes
        /\ wlog' = Append(wlog, WriteEntry("rec", w.rec, MarshalKV(w.rec),
                                           w.rec.Name, w.bytes))
    /\ UNCHANGED <<wr, phase, rd, chunk, cut, ret, lastCall, rlog>>
    /\ UNCHANGED codecVars

\* w.WriteNamed(d, name)
WriteNamed(d, name) ==
    /\ phase = "write"
    /\ Len(wlog) < MaxWrites
    /\ LET bytes == WriteNamedBytes(d, name) IN
        /\ stream' = stream \o bytes
        /\ wlog' = Append(wlog, WriteEntry("data", KVRecord(<<>>, <<>>, <<>>),
                                           d, name, bytes))
    /\ UNCHANGED <<wr, phase, rd, chunk, cut, ret, lastCall, rlog>>
    /\ UNCHANGED codecVars

\* w.Write(d)
Write(d) == WriteNamed(d, <<>>)

\* r := NewReader(f) over the first c bytes of the stream, which f delivers
\* ch bytes at a time
OpenReader(c, ch) ==
    /\ phase = "write"
    /\ c = Len(stream) \/ ch = defaultBufSize
    /\ phase' = "read"
    /\ rd' = NewReader(SubSeq(stream, 1, c))
    /\ chunk' = ch
    /\ cut' = c
    /\ UNCHANGED <<wr, stream, wlog, ret, lastCall, rlog>>
    /\ UNCHANGED codecVars

\* r.Format = f, before the first read
ConfigReader(f) ==
    /\ phase = "read"
    /\ lastCall = "none"
    /\ f # rd.Format
    /\ rd' = [rd EXCEPT !.Format = f]
    /\ UNCHANGED <<wr, stream, wlog, phase, chunk, cut, ret, lastCall, rlog>>
    /\ UNCHANGED codecVars

ReadEntry(call, r) ==
    [call |-> call, ret |-> ret', err |-> r.err,
     Keys |-> r.rec.Keys, Values |-> r.rec.Values,
     Name |-> IF call = "ReadNext" THEN r.rec.Name ELSE r.Name,
     Data |-> r.Data, off |-> r.currRecPos, next |-> r.nextRecPos]

ReadNextMutNoErrCheck ==
    /\ phase = "read"
    /\ lastCall' = "ReadNext"
    /\ \E rec1 \in {[rd.rec EXCEPT !.noSeparator = (rd.Format = "SizePrefix")]} :
       \E o \in {ReadRecord(rd.br, chunk, rec1)} :
           IF o.err = "panic"
           THEN /\ phase' = "panic"
                /\ rd' = [rd EXCEPT !.rec = rec1, !.currRecPos = rd.nextRecPos]
                /\ UNCHANGED <<ret, rlog>>
           ELSE /\ rd' = [rd EXCEPT !.rec = o.rec, !.br = o.br, !.err = o.err,
                                    !.currRecPos = rd.nextRecPos,
                                    !.nextRecPos = rd.nextRecPos + o.n]
                /\ ret' = (o.err = "nil")
                /\ rlog' = Append(rlog, ReadEntry("ReadNext", rd'))
                /\ UNCHANGED phase
    /\ UNCHANGED <<wr, stream, wlog, chunk, cut>>
    /\ UNCHANGED codecVars

\* r.ReadNext()
ReadNext ==
    /\ phase = "read"
    /\ lastCall' = "ReadNext"
    /\ IF rd.err # "nil"
       THEN /\ ret' = FALSE
            /\ UNCHANGED <<rd, phase, rlog>>
       ELSE \E rec1 \in {[rd.rec EXCEPT !.noSeparator = (rd.Format = "SizePrefix")]} :
            \E o \in {ReadRecord(rd.br, chunk, rec1)} :
                IF o.err = "panic"
                THEN /\ phase' = "panic"
                     /\ rd' = [rd EXCEPT !.rec = rec1,
                                         !.currRecPos = rd.nextRecPos]
                     /\ UNCHANGED <<ret, rlog>>
                ELSE /\ rd' = [rd EXCEPT !.rec = o.rec, !.br = o.br,
                                         !.err = o.err,
                                         !.currRecPos = rd.nextRecPos,
                                         !.nextRecPos = rd.nextRecPos + o.n]
                     /\ ret' = (o.err = "nil")
                     /\ rlog' = Append(rlog, ReadEntry("ReadNext", rd'))
                     /\ UNCHANGED phase
    /\ UNCHANGED <<wr, stream, wlog, chunk, cut>>
    /\ UNCHANGED codecVars

\* r.ReadNextData()
ReadNextData ==
    /\ phase = "read"
    /\ lastCall' = "ReadNextData"
    /\ IF rd.err # "nil"
       THEN /\ ret' = FALSE
            /\ UNCHANGED <<rd, phase, rlog>>
       ELSE \E o \in {ReadSizePrefixed(rd.br, chunk)} :
                IF o.err = "panic"
                THEN /\ phase' = "panic"
                     /\ rd' = [rd EXCEPT !.currRecPos = rd.nextRecPos]
                     /\ UNCHANGED <<ret, rlog>>
                ELSE /\ rd' = [rd EXCEPT !.Data = o.d, !.Name = o.name,
                                         !.br = o.br, !.err = o.err,
                                         !.currRecPos = rd.nextRecPos,
                                         !.nextRecPos = rd.nextRecPos + o.n]
                     /\ ret' = (o.err # "nil")
                     /\ rlog' = Append(rlog, ReadEntry("ReadNextData", rd'))
                     /\ UNCHANGED phase
    /\ UNCHANGED <<wr, stream, wlog, chunk, cut>>
    /\ UNCHANGED codecVars

\* r.Err()
Err == IF rd.err = "EOF" THEN "nil" ELSE rd.err

NextStream ==
    \/ \E s \in Styles : ConfigWriter(s)
    \/ \E r \in StreamRecords : WriteRecord(r)
    \/ \E d \in NamedPayloads : WriteNamed(d, NameAB)
    \/ \E d \in Payloads : Write(d)
    \/ \E c \in 0..Len(stream), ch \in Chunks : OpenReader(c, ch)
    \/ \E f \in Styles : ConfigReader(f)
    \/ ReadNext
    \/ ReadNextData

SpecStream == InitStream /\ [][NextStream]_vars

(***************************************************************************)
(* The Reader over a stream of arbitrary bytes.                            *)
(***************************************************************************)
\* r := NewReader(f) where f holds the bytes d and delivers ch per Read
OpenRaw(d, ch) ==
    /\ phase = "write"
    /\ stream = <<>>
    /\ stream' = d
    /\ phase' = "read"
    /\ rd' = NewReader(d)
    /\ chunk' = ch
    /\ cut' = Len(d)
    /\ UNCHANGED <<wr, wlog, ret, lastCall, rlog>>
    /\ UNCHANGED codecVars

\* a Reader is made over some stream
OpenAnyRaw ==
    /\ phase = "write"
    /\ \E d \in RawStreams, ch \in RawChunks : OpenRaw(d, ch)

NextRaw ==
    \/ OpenAnyRaw
    \/ \E f \in Styles : ConfigReader(f)
    \/ ReadNext
    \/ ReadNextData

SpecRaw == InitStream /\ [][NextRaw]_vars

\* the loop `for r.ReadNext() {}`: the caller makes a Reader and goes on
\* calling ReadNext
SpecRawLoop ==
    InitStream /\ [][NextRaw]_vars /\ WF_vars(OpenAnyRaw) /\ WF_vars(ReadNext)


IsNumber(s) ==
    LET digs == IF Len(s) > 0 /\ s[1] \in {Plus, Minus} THEN Tail(s) ELSE s
    IN  Len(digs) > 0 /\ \A i \in 1..Len(digs) : IsDigit(digs[i])

NumberValue(s) ==
    IF s[1] = Minus THEN 0 - DigitsValue(Tail(s))
    ELSE IF s[1] = Plus THEN DigitsValue(Tail(s))
    ELSE DigitsValue(s)

\* the input has a malformed header line, read from the start as the grammar
\* of the format says
RECURSIVE HasMalformedHeader(_)
HasMalformedHeader(d) ==
    IF Len(d) = 0 THEN FALSE
    ELSE IF IndexByte(d, NL) = 0 THEN TRUE
    ELSE
    LET eol   == IndexByte(d, NL)
        line  == SubSeq(d, 1, eol - 1)
        after == SubSeq(d, eol + 1, Len(d))
        colon == IndexByte(line, Colon)
        tail  == SubSeq(line, colon + 2, Len(line))
    IN
    IF colon = 0 \/ colon = Len(line) THEN TRUE
    ELSE IF line[colon + 1] = Space THEN HasMalformedHeader(after)
    ELSE IF line[colon + 1] # Plus THEN TRUE
    ELSE IF ~IsNumber(tail) THEN TRUE
    ELSE IF NumberValue(tail) < 0 \/ NumberValue(tail) > Len(after) THEN TRUE
    ELSE
    LET n == NumberValue(tail)
        skip == IF n < Len(after) /\ after[n + 1] = NL THEN n + 1 ELSE n
    IN  HasMalformedHeader(SubSeq(after, skip + 1, Len(after)))

C5_MalformedRejected ==
    (cpc = "decoded" /\ (HasMalformedHeader(buf) \/ buf \in InvalidRecords)) =>
        /\ res.kind = "err"
        /\ res.rec = NilRecord

\* reached: a negative length, and a length larger than what remains
C5_Witness ==
    /\ cpc = "decoded"
    /\ buf = <<Colon, Plus, Minus, B.one, NL>>
    /\ res.kind = "err"

(***************************************************************************)
(* C9.  Byte-exact encoding, as claimed: Marshal's output is the           *)
(* concatenation, in entry order, of one block per entry and nothing else: *)
(* key ": " value "\n" for a short-form value; key ":+" length "\n" value  *)
(* for a long-form one, followed by one "\n" if and only if the value does *)
(* not already end in "\n".                                                *)
(***************************************************************************)
EndsInNewline(v) == Len(v) > 0 /\ v[Len(v)] = NL

ShortBlock(e) == e.Key \o <<Colon, Space>> \o e.Value \o <<NL>>

LongBlockClaimed(e) ==
    e.Key \o <<Colon, Plus>> \o Itoa(Len(e.Value)) \o <<NL>> \o e.Value
    \o (IF ~EndsInNewline(e.Value) THEN <<NL>> ELSE <<>>)

RECURSIVE BlocksClaimed(_)
BlocksClaimed(entries) ==
    IF Len(entries) = 0 THEN <<>>
    ELSE (IF needsLongFormat(Head(entries).Value)
          THEN LongBlockClaimed(Head(entries))
          ELSE ShortBlock(Head(entries)))
         \o BlocksClaimed(Tail(entries))

C9_AsClaimed ==
    (cpc = "encoded" /\ fromRec) => buf = BlocksClaimed(rec.Entries)

(***************************************************************************)
(* C9, amended.  The same, except that the "\n" after a long-form value    *)
(* is written if and only if the value is non-empty and does not end in    *)
(* "\n": an empty value is encoded as key ":+0\n" and nothing more.        *)
(* ("key","val") encodes to "key: val\n", ("k2","a\nb") to "k2:+3\na\nb\n" *)
(* and a Record without entries to zero bytes.                             *)
(***************************************************************************)
LongBlock(e) ==
    e.Key \o <<Colon, Plus>> \o Itoa(Len(e.Value)) \o <<NL>> \o e.Value
    \o (IF Len(e.Value) > 0 /\ ~EndsInNewline(e.Value) THEN <<NL>> ELSE <<>>)

RECURSIVE Blocks(_)
Blocks(entries) ==
    IF Len(entries) = 0 THEN <<>>
    ELSE (IF needsLongFormat(Head(entries).Value)
          THEN LongBlock(Head(entries))
          ELSE ShortBlock(Head(entries)))
         \o Blocks(Tail(entries))

C9_ByteExact ==
    (cpc = "encoded" /\ fromRec) =>
        /\ buf = Blocks(rec.Entries)
        /\ rec.Entries = <<>> => buf = <<>>
        /\ rec.Entries = <<Entry(<<107, 101, 121>>, <<B.v, B.a, 108>>)>>
             => buf = <<107, 101, 121, Colon, Space, B.v, B.a, 108, NL>>
        /\ rec.Entries = <<Entry(<<B.k, 50>>, <<B.a, NL, B.b>>)>>
             => buf = <<B.k, 50, Colon, Plus, 51, NL, B.a, NL, B.b, NL>>

C9_Witness ==
    /\ cpc = "encoded"
    /\ fromRec
    /\ rec.Entries = <<Entry(<<B.k, 50>>, <<B.a, NL, B.b>>), Entry(<<>>, <<>>)>>
    /\ buf = <<B.k, 50, Colon, Plus, 51, NL, B.a, NL, B.b, NL,
               Colon, Plus, Digit0, NL>>

(***************************************************************************)
(* C10.  Length threshold: a value of exactly 120 printable-ASCII bytes is *)
(* encoded in short form, a value of 121 bytes in long form, and the empty *)
(* value always in long form, as key ":+0\n".                              *)
(***************************************************************************)
IsPrefix(p, s) == Len(p) <= Len(s) /\ SubSeq(s, 1, Len(p)) = p

FirstShort == IsPrefix(ShortBlock(rec.Entries[1]), buf)

FirstLong ==
    IsPrefix(rec.Entries[1].Key \o <<Colon, Plus>>
                 \o Itoa(Len(rec.Entries[1].Value)) \o <<NL>>
                 \o rec.Entries[1].Value, buf)

\* C11 as stated: a value uses short form only if every byte b has
\* 32 <= b < 127, and a value of 1..120 bytes with a byte outside [32,127)
\* is in long form.
C11_AsClaimed ==
    (cpc = "encoded" /\ fromRec /\ Len(rec.Entries) > 0) =>
        LET v == rec.Entries[1].Value IN
        /\ FirstShort => \A i \in 1..Len(v) : 32 <= v[i] /\ v[i] < 127
        /\ (Len(v) >= 1 /\ Len(v) <= LongThreshold
              /\ \E i \in 1..Len(v) : v[i] < 32 \/ v[i] >= 127) => FirstLong

\* C11 as the code has it: a value uses short form only if every byte b has
\* 32 <= b <= 127 (the byte 127 included); a value of 1..120 bytes is in long
\* form exactly when one of its bytes is under 32 or over 127.
C11_ByteRange ==
    (cpc = "encoded" /\ fromRec /\ Len(rec.Entries) > 0) =>
        LET v == rec.Entries[1].Value IN
        /\ FirstShort => \A i \in 1..Len(v) : 32 <= v[i] /\ v[i] <= 127
        /\ (Len(v) >= 1 /\ Len(v) <= LongThreshold) =>
              /\ (\E i \in 1..Len(v) : v[i] < 32 \/ v[i] > 127) => FirstLong
              /\ (\A i \in 1..Len(v) : 32 <= v[i] /\ v[i] <= 127) =>
                    FirstShort /\ ~FirstLong

C11_Witness ==
    /\ cpc = "encoded"
    /\ fromRec
    /\ Len(rec.Entries) = 2
    /\ rec.Entries[1].Value = <<B.del>>
    /\ rec.Entries[2].Value = H120
    /\ buf = rec.Entries[1].Key \o <<Colon, Space, B.del, NL>>
             \o rec.Entries[2].Key \o <<Colon, Plus, 49, 50, 48, NL>> \o H120 \o <<NL>>

(***************************************************************************)
(* C12.  Exact sizing of the Marshal versions that allocate once.          *)
(***************************************************************************)
\* C12: for every Record the size Marshal computes before encoding is the
\* number of bytes it then produces, so the check len(buf) == cap(buf)
\* (part_006) and the check pos == n (serialize.go) never fail: no call
\* other than an Append with a wrong number of arguments panics.
C12_ExactSize ==
    /\ (cpc = "panic") => (recCall.op = "Append")
    /\ (cpc = "encoded" /\ fromRec /\ Len(rec.Entries) > 0) =>
          /\ MarshalSize(rec.Entries) = Len(buf)
          /\ \A ns \in BOOLEAN :
                MarshalKVSize(AsKVRecord(rec.Entries, ns))
                    = Len(MarshalKV(AsKVRecord(rec.Entries, ns)))

C12_Witness ==
    /\ cpc = "encoded"
    /\ fromRec
    /\ Len(rec.Entries) = 2
    /\ rec.Entries[1].Value = A1000
    /\ rec.Entries[2].Value = <<>>
    /\ MarshalSize(rec.Entries) = 2 * Len(rec.Entries[1].Key) + 7 + 1000 + 1 + 4

(***************************************************************************)
(* C17.  No stale data after decoding into a Record in use.                *)
(***************************************************************************)
IsPrefixOf(p, q) == Len(p) <= Len(q) /\ SubSeq(q, 1, Len(p)) = p

\* C17: after r.Unmarshal(d) on a Record r that holds entries, a name and a
\* timestamp, r holds none of them, whether the call succeeds or fails; on
\* success r holds exactly the entries of d, on failure the entries of d
\* parsed before the error.
C17_NoStaleData ==
    (cpc = "decodedInto") =>
        /\ res.target.Name = <<>>
        /\ res.target.Timestamp = 0
        /\ \A i \in 1..Len(res.target.Entries) :
              res.target.Entries[i] # UsedRecord.Entries[1]
        /\ res.target.Entries = UnmarshalLoop(buf, <<>>).Entries
        /\ res.kind \in {"rec", "err"}
        /\ res.kind = "rec" =>
              /\ res.rec = res.target
              /\ fromRec => res.target.Entries = rec.Entries
        /\ (res.kind = "err" /\ fromRec) =>
              IsPrefixOf(res.target.Entries, rec.Entries)

\* "a: \n" and then a line without newline: one entry, then the error
C17_Witness ==
    /\ cpc = "decodedInto"
    /\ res.kind = "err"
    /\ Len(res.target.Entries) = 1
    /\ res.target.Entries[1] = Entry(<<B.a>>, <<>>)

(***************************************************************************)
(* C19, C20.  Append and Get.                                              *)
(***************************************************************************)
\* C19: Append with no argument or an odd number of arguments panics and
\* leaves the entries as they were; Append with 2k > 0 arguments adds the k
\* entries (args[0], args[1]), (args[2], args[3]), ... in that order after
\* the entries the Record had, which keep their order and content.
C19_AppendArity ==
    (recCall.op = "Append") =>
        LET n   == Len(recCall.args)
            old == recCall.before.Entries
        IN  /\ (n = 0 \/ n % 2 = 1) =>
                  /\ recCall.panic
                  /\ cpc = "panic"
                  /\ rec = recCall.before
            /\ (n > 0 /\ n % 2 = 0) =>
                  /\ ~recCall.panic
                  /\ cpc = "build"
                  /\ Len(rec.Entries) = Len(old) + (n \div 2)
                  /\ SubSeq(rec.Entries, 1, Len(old)) = old
                  /\ \A j \in 1..(n \div 2) :
                        rec.Entries[Len(old) + j] =
                            Entry(recCall.args[2 * j - 1], recCall.args[2 * j])
                  /\ rec.Name = recCall.before.Name
                  /\ rec.Timestamp = recCall.before.Timestamp

\* four arguments appended to a Record that holds an entry
C19_Witness ==
    /\ recCall.op = "Append"
    /\ Len(recCall.args) = 4
    /\ Len(recCall.before.Entries) = 1
    /\ Len(rec.Entries) = 3
    /\ cpc = "build"

\* the indexes of the entries with the key looked up
Matches(entries, key) == { i \in 1..Len(entries) : entries[i].Key = key }

\* C20: Get(key) returns (value, true) with the value of the first entry, in
\* append order, whose key equals key byte for byte, also when later entries
\* have that key; it returns ("", false) when no entry has that key; Get
\* changes nothing in the Record.
C20_GetFirstMatch ==
    (recCall.op = "Get") =>
        LET key == recCall.args[1]
            m   == Matches(rec.Entries, key)
        IN  /\ rec = recCall.before
            /\ ~recCall.panic /\ cpc = "looked"
            /\ (m = {}) => (recCall.val = <<>> /\ ~recCall.ok)
            /\ (m # {}) =>
                  /\ recCall.ok
                  /\ \E i \in m :
                        /\ \A j \in m : i <= j
                        /\ recCall.val = rec.Entries[i].Value

\* two entries with the key looked up and different values
C20_Witness ==
    /\ recCall.op = "Get"
    /\ Len(rec.Entries) = 2
    /\ rec.Entries[1].Key = recCall.args[1]
    /\ rec.Entries[2].Key = recCall.args[1]
    /\ rec.Entries[1].Value # rec.Entries[2].Value
    /\ recCall.ok
    /\ recCall.val = rec.Entries[1].Value

(***************************************************************************)
(* Claims about the Writer and the Reader.                                 *)
(***************************************************************************)
OnlyRecords == \A i \in 1..Len(wlog) : wlog[i].kind = "rec"

OnlyData == \A i \in 1..Len(wlog) : wlog[i].kind = "data"

\* the Reader reads in the mode the Writer wrote in
Matching == rd.Format = wr.WriteStyle

\* the Reader's io.Reader holds the whole stream
Untruncated == cut = Len(stream)

OnlyCalls(call) == \A i \in 1..Len(rlog) : rlog[i].call = call

\* the calls that read a record or a block: their error is nil
IsSuccess(e) == e.err = "nil"

Successes == SelectSeq(rlog, IsSuccess)

\* the sum of the byte counts the first i writes returned
RECURSIVE SumBytes(_)
SumBytes(i) == IF i = 0 THEN 0 ELSE SumBytes(i - 1) + wlog[i].n

\* C2: for records written one after another with WriteRecord and read back
\* from offset 0 in the matching mode, the i-th successful ReadNext reports
\* as record start the sum of the byte counts of the writes 1..i-1, and as
\* next-record offset that sum plus the byte count of the i-th write.
C2_OffsetsAsClaimed ==
    (phase = "read" /\ OnlyRecords /\ Matching /\ Untruncated
        /\ OnlyCalls("ReadNext"))
    => \A i \in 1..Len(Successes) :
          i <= Len(wlog) =>
             /\ Successes[i].off = SumBytes(i - 1)
             /\ Successes[i].next = SumBytes(i - 1) + wlog[i].n

\* C3: for payloads and names written with Write and WriteNamed, reading
\* the stream frame by frame with ReadNextData yields the same payloads and
\* names in the same order, and all of them once the reading has ended.
C3_BlobRoundTripAsClaimed ==
    (phase = "read" /\ OnlyData /\ Untruncated /\ OnlyCalls("ReadNextData"))
    => /\ \A i \in 1..Len(Successes) :
             /\ i <= Len(wlog)
             /\ Successes[i].Data = wlog[i].d
             /\ Successes[i].Name = wlog[i].Name
       /\ rd.err # "nil" => Len(Successes) = Len(wlog)

\* C4: a Record written with WriteRecord on the Writer of NewWriter is read
\* back by the first ReadNext on the Reader of NewReader over the written
\* bytes, with the keys, the values and the name written.
C4_DefaultPairingAsClaimed ==
    (phase = "read" /\ wr = NewWriter /\ rd.Format = NewReader(<<>>).Format
        /\ Len(wlog) >= 1 /\ wlog[1].kind = "rec" /\ Untruncated
        /\ Len(rlog) >= 1 /\ rlog[1].call = "ReadNext")
    => /\ rlog[1].ret = TRUE
       /\ rlog[1].Keys = wlog[1].Keys
       /\ rlog[1].Values = wlog[1].Values
       /\ rlog[1].Name = wlog[1].Name

\* whether a value is written in long form by Record.Marshal of serialize.go
IsLongKV(val) == Len(val) > LongThreshold \/ ~isASCII(val)

\* the length of the header line of an entry, its newline included
EntryHeaderLen(key, val) ==
    IF IsLongKV(val) THEN Len(key) + 2 + Len(Itoa(Len(val))) + 1
    ELSE Len(MarshalKVEntry(key, val))

\* position p of the encoded entries lies strictly inside the header line
\* of an entry or strictly inside a long-form value
RECURSIVE MidEntry(_, _, _)
MidEntry(keys, vals, p) ==
    IF Len(keys) = 0 THEN FALSE
    ELSE LET h == EntryHeaderLen(Head(keys), Head(vals))
             t == Len(MarshalKVEntry(Head(keys), Head(vals)))
         IN  \/ 0 < p /\ p < h
             \/ IsLongKV(Head(vals)) /\ h < p /\ p < h + Len(Head(vals))
             \/ p >= t /\ MidEntry(Tail(keys), Tail(vals), p - t)

\* the stream the Reader is given ends inside the record of write j: in
\* separator mode after a whole entry and before the end of the terminator,
\* in either mode inside a header line or inside a long-form value
TruncatedIn(j) ==
    LET w   == wlog[j]
        rel == cut - w.off
        fh  == w.n - Len(w.d)
    IN  /\ 0 < rel /\ rel < w.n
        /\ IF wr.WriteStyle = "Separator"
           THEN \/ rel >= Len(MarshalKVEntry(Head(w.Keys), Head(w.Values)))
                \/ MidEntry(w.Keys, w.Values, rel)
           ELSE \/ rel < fh
                \/ MidEntry(w.Keys, w.Values, rel - fh)

\* the writes that lie wholly in front of the end of the Reader's stream
WholeWrites == { j \in 1..Len(wlog) : wlog[j].off + wlog[j].n <= cut }

\* C6: when the stream ends inside a record (after at least one entry and
\* before the terminator, or inside a header line or a long-form value),
\* ReadNext returns true for whole records only, and once it has returned
\* false Err() is not nil.
C6_TruncationAsClaimed ==
    (phase = "read" /\ OnlyRecords /\ Matching /\ OnlyCalls("ReadNext")
        /\ \E j \in 1..Len(wlog) : TruncatedIn(j))
    => /\ Len(Successes) <= Cardinality(WholeWrites)
       /\ rd.err # "nil" => Err # "nil"

HasBytes(w) == w.n > 0

\* the records of the stream: every write that put bytes on it
WrittenRecords == SelectSeq(wlog, HasBytes)

\* C7: on a stream of whole records read in the matching mode, when ReadNext
\* has returned false Err() is nil and the loop over ReadNext has returned
\* every record of the stream, in order.
C7_CleanEndAsClaimed ==
    (phase = "read" /\ OnlyRecords /\ Matching /\ Untruncated
        /\ OnlyCalls("ReadNext") /\ lastCall = "ReadNext" /\ ret = FALSE)
    => /\ Err = "nil"
       /\ Len(Successes) = Len(WrittenRecords)
       /\ \A i \in 1..Len(Successes) :
             /\ Successes[i].Keys = WrittenRecords[i].Keys
             /\ Successes[i].Values = WrittenRecords[i].Values

\* C8: ReadNextData returns true exactly when it has read one more block,
\* and false when reading is finished (end of the stream or an error).
C8_ReturnAsClaimed ==
    (phase = "read" /\ lastCall = "ReadNextData")
    => (ret = TRUE <=> rd.err = "nil")


\* the bytes write number i put on the stream
WrittenBytes(i) == SubSeq(stream, wlog[i].off + 1, wlog[i].off + wlog[i].n)

\* the header line of a frame: "<len(d)>\n" or "<len(d)> <name>\n"
FrameHeader(d, name) ==
    Itoa(Len(d))
    \o (IF name = <<>> THEN <<>> ELSE <<Space>> \o name)
    \o <<NL>>

\* C13 as stated: WriteNamed(d, name) writes the header, the bytes of d and
\* then one '\n' if and only if d does not end in '\n'.
C13_AsClaimed ==
    \A i \in 1..Len(wlog) :
        wlog[i].kind = "data" =>
            WrittenBytes(i) =
                FrameHeader(wlog[i].d, wlog[i].Name) \o wlog[i].d
                \o (IF ~EndsInNewline(wlog[i].d) THEN <<NL>> ELSE <<>>)

\* C13 as the code has it: WriteNamed(d, name) writes the header, the bytes
\* of d and then one '\n' if and only if d is not empty and does not end in
\* '\n'; the empty payload is written as the header line alone.
C13_FrameLayout ==
    \A i \in 1..Len(wlog) :
        wlog[i].kind = "data" =>
            WrittenBytes(i) =
                FrameHeader(wlog[i].d, wlog[i].Name) \o wlog[i].d
                \o (IF Len(wlog[i].d) > 0 /\ ~EndsInNewline(wlog[i].d)
                    THEN <<NL>> ELSE <<>>)

\* "2 a b\nho\n" and then "0\n"
C13_Witness ==
    /\ Len(wlog) = 2
    /\ wlog[1].kind = "data" /\ wlog[1].d = <<104, 111>> /\ wlog[1].Name = NameAB
    /\ wlog[2].kind = "data" /\ wlog[2].d = <<>> /\ wlog[2].Name = <<>>
    /\ stream = <<50, Space, B.a, Space, B.b, NL, 104, 111, NL, Digit0, NL>>


\* C14: every write of the Writer (Write, WriteNamed, WriteRecord, in either
\* mode) returns the number of bytes it appended to the stream, the header
\* line and the padding newline included.
C14_WriteCounts ==
    /\ SumBytes(Len(wlog)) = Len(stream)
    /\ \A i \in 1..Len(wlog) :
          /\ wlog[i].off = SumBytes(i - 1)
          /\ (wlog[i].kind = "data" \/ wr.WriteStyle = "SizePrefix") =>
                wlog[i].n = Len(FrameHeader(wlog[i].d, wlog[i].Name))
                            + Len(wlog[i].d)
                            + (IF Len(wlog[i].d) > 0 /\ ~EndsInNewline(wlog[i].d)
                               THEN 1 ELSE 0)
          /\ (wlog[i].kind = "rec" /\ wr.WriteStyle = "Separator") =>
                wlog[i].n = Len(wlog[i].d)

\* "k: v\n---\n" written by WriteRecord, then "2 a b\nho\n" by WriteNamed
C14_Witness ==
    /\ wr.WriteStyle = "Separator"
    /\ Len(wlog) = 2
    /\ wlog[1].kind = "rec" /\ wlog[1].n = 9
    /\ wlog[2].kind = "data" /\ wlog[2].d = <<104, 111>> /\ wlog[2].n = 9
    /\ Len(stream) = 18


\* C15: after the header of the first frame, which declares N = len(d),
\* ReadSizePrefixed returns as payload the next N bytes of the stream, in
\* whatever chunks the stream delivers them, and returns an error when fewer
\* than N bytes follow the header.
C15_AsClaimed ==
    (phase = "read" /\ Len(wlog) >= 1 /\ wlog[1].kind = "data"
        /\ Len(rlog) >= 1 /\ rlog[1].call = "ReadNextData"
        /\ cut >= Len(FrameHeader(wlog[1].d, wlog[1].Name)))
    => IF cut >= Len(FrameHeader(wlog[1].d, wlog[1].Name)) + Len(wlog[1].d)
       THEN rlog[1].err = "nil" /\ rlog[1].Data = wlog[1].d
       ELSE rlog[1].err # "nil"


\* C16: for frames written with WriteNamed, with or without padding newline,
\* the i-th successful ReadNextData reports as current-record position the
\* sum of the byte counts WriteNamed returned for the frames 1..i-1, and
\* after the last frame the next-record position is the number of bytes
\* written.
C16_AsClaimed ==
    (phase = "read" /\ OnlyData /\ Untruncated /\ OnlyCalls("ReadNextData"))
    => \A i \in 1..Len(Successes) :
          i <= Len(wlog) =>
             /\ Successes[i].off = SumBytes(i - 1)
             /\ i = Len(wlog) => Successes[i].next = Len(stream)

(***************************************************************************)
(* C18.  Encoding and the Record it is given.                              *)
(***************************************************************************)
\* the Record handed to the i-th write call, a new Record with its fields set
GivenRecord(i) == KVRecord(wlog[i].Keys, wlog[i].Values, wlog[i].Name)

\* the same Record as the call left it
LeftRecord(i) ==
    [GivenRecord(i) EXCEPT !.noSeparator = wlog[i].noSeparator]

\* C18: Writer.WriteRecord leaves every field of the Record it is given
\* unchanged, the framing flag included, so that Marshal of that Record gives
\* the same bytes after the call as before it.
C18_AsClaimed ==
    \A i \in 1..Len(wlog) :
        wlog[i].kind = "rec" =>
            /\ LeftRecord(i) = GivenRecord(i)
            /\ MarshalKV(LeftRecord(i)) = MarshalKV(GivenRecord(i))

(***************************************************************************)
(* C21.  Round trip of a separator-framed stream.                          *)
(***************************************************************************)
SeparatorRoundTrip ==
    /\ phase = "read" /\ OnlyRecords /\ Untruncated /\ OnlyCalls("ReadNext")
    /\ wr.WriteStyle = "Separator" /\ rd.Format = "Separator"

\* C21: for N Records written one after another in separator mode, a Reader
\* in separator mode returns true from ReadNext exactly N times and yields,
\* in order, records with the keys and values written; after that ReadNext
\* returns false.
C21_AsClaimed ==
    SeparatorRoundTrip =>
        /\ Len(Successes) <= Len(wlog)
        /\ \A i \in 1..Len(Successes) :
              i <= Len(wlog) =>
                 /\ Successes[i].Keys = wlog[i].Keys
                 /\ Successes[i].Values = wlog[i].Values
        /\ \A i \in 1..Len(rlog) : rlog[i].ret = (i <= Len(wlog))

(***************************************************************************)
(* C22.  Malformed streams and the Reader.                                 *)
(***************************************************************************)
\* C22: for every byte stream and in both framing modes ReadNext and
\* ReadNextData return normally; when a frame header or a long-form entry
\* header has a length that is not a number or is negative, reading the
\* record with ReadNext fails and Err() is not nil.
C22_AsClaimed ==
    /\ phase # "panic"
    /\ (phase = "read" /\ lastCall # "none" /\ OnlyCalls("ReadNext")
           /\ chunk = defaultBufSize /\ stream \in BadLengths) =>
          /\ rd.err # "nil"
          /\ Err # "nil"

(***************************************************************************)
(* C23.  The Reader in separator mode and the Decoder.                     *)
(***************************************************************************)
EndsWithSeparator ==
    /\ Len(stream) >= Len(recordSeparatorWithNL)
    /\ SubSeq(stream, Len(stream) - Len(recordSeparatorWithNL) + 1, Len(stream))
          = recordSeparatorWithNL

\* the bytes E in front of the final line "---\n"
EntriesBytes == SubSeq(stream, 1, Len(stream) - Len(recordSeparatorWithNL))

\* the first call on the Reader was ReadNext in separator mode, on a stream
\* E followed by "---\n"
FirstReadRecord ==
    /\ \/ phase = "read" /\ Len(rlog) >= 1 /\ rlog[1].call = "ReadNext"
       \/ phase = "panic" /\ rlog = <<>> /\ lastCall = "ReadNext"
    /\ rd.Format = "Separator"
    /\ EndsWithSeparator

FirstReadOk == phase = "read" /\ rlog[1].ret

\* C23: UnmarshalRecord(E) succeeds with entries L if and only if ReadRecord
\* on the stream E followed by the line "---\n" succeeds with the entries L.
C23_AsClaimed ==
    FirstReadRecord =>
        LET u == UnmarshalRecord(EntriesBytes, NilRecord)
        IN  /\ (u.kind = "rec") <=> FirstReadOk
            /\ (u.kind = "rec" /\ FirstReadOk) =>
                  /\ rlog[1].Keys = EntryKeys(u.rec.Entries)
                  /\ rlog[1].Values = EntryValues(u.rec.Entries)

(***************************************************************************)
(* C24.  The Record the Reader reuses.                                     *)
(***************************************************************************)
\* a Record that was never used, as ReadNext hands it to ReadRecord
UnusedRecord(f) ==
    [KVRecord(<<>>, <<>>, <<>>) EXCEPT !.noSeparator = (f = "SizePrefix")]

\* a step in which ReadNext read a record
ReadNextSucceeds ==
    /\ phase = "read" /\ rd.err = "nil"
    /\ lastCall' = "ReadNext" /\ ret' = TRUE /\ rlog' # rlog

\* what the same call leaves in a Record that was never used
ReadIntoUnused == ReadRecord(rd.br, chunk, UnusedRecord(rd.Format)).rec

\* the records read are those of the stream: read in the mode written, from
\* the whole stream, each payload delivered in one piece
ReadsWhole ==
    /\ phase = "read" /\ OnlyRecords /\ Matching /\ Untruncated
    /\ OnlyCalls("ReadNext") /\ chunk = defaultBufSize

C25_StickyFailure ==
    [][(phase = "read" /\ rd.err # "nil") =>
          /\ phase' = "read"
          /\ rd'.br = rd.br
          /\ rd'.currRecPos = rd.currRecPos
          /\ rd'.nextRecPos = rd.nextRecPos
          /\ rd'.err = rd.err
          /\ rd' = rd
          /\ rlog' = rlog
          /\ lastCall' = "ReadNext" => ret' = FALSE]_vars

\* ReadNext failed inside the stream, and ReadNextData was called after it
C25_Witness ==
    /\ phase = "read"
    /\ Len(rlog) >= 2
    /\ rlog[Len(rlog)].call = "ReadNext"
    /\ rlog[Len(rlog)].err \notin {"nil", "EOF"}
    /\ rd.err = rlog[Len(rlog)].err
    /\ rd.nextRecPos > 0
    /\ lastCall = "ReadNextData"
    /\ ret = FALSE

(***************************************************************************)
(* C26.  Termination of reading.                                           *)
(***************************************************************************)
\* the bytes of the stream the Reader has not consumed
Remaining(r) == Len(r.br.buf) + Len(r.br.src)

\* C26: on every finite stream and in either framing mode each successful
\* ReadNext consumes at least one byte, and the calls end in the state in
\* which the end of the stream or an error was reached.
C26_AsClaimed ==
    /\ [][ReadNextSucceeds => Remaining(rd') < Remaining(rd)]_vars
    /\ <>(phase = "read" /\ rd.err # "nil")

(***************************************************************************)
(* C27.  The sentinel line in separator mode.                              *)
(***************************************************************************)
\* the header line of the entry (key, val) as Record.Marshal writes it
HeaderLine(key, val) ==
    SubSeq(MarshalKVEntry(key, val), 1, EntryHeaderLen(key, val))

\* the stream SentinelStream is read in separator mode with ReadNext
ReadsSentinels ==
    /\ phase \in {"read", "panic"} /\ stream = SentinelStream
    /\ rd.Format = "Separator" /\ OnlyCalls("ReadNext")

\* where the encoding of the i-th Record ends in SentinelStream
SentinelEnd(i) ==
    IF i = 1 THEN Len(MarshalKV(SentinelRecords[1])) ELSE Len(SentinelStream)

\* C27: for a Record whose keys have neither ':' nor a newline no header
\* line of the encoding is "---", and a line "---" inside a long-form value
\* is read as bytes of the value: ReadRecord ends each record at the
\* sentinel the encoder appended, also when a value holds "\n---\n".
C27_SentinelSafety ==
    /\ \A i \in 1..Len(SentinelRecords) :
          \A j \in 1..Len(SentinelRecords[i].Keys) :
             HeaderLine(SentinelRecords[i].Keys[j], SentinelRecords[i].Values[j])
                 # recordSeparatorWithNL
    /\ ReadsSentinels =>
          /\ phase = "read"
          /\ Len(Successes) <= Len(SentinelRecords)
          /\ \A i \in 1..Len(Successes) :
                /\ Successes[i].Keys = SentinelRecords[i].Keys
                /\ Successes[i].Values = SentinelRecords[i].Values
                /\ Successes[i].next = SentinelEnd(i)
          /\ rd.err # "nil" =>
                /\ rd.err = "EOF"
                /\ Len(Successes) = Len(SentinelRecords)

C27_Witness ==
    /\ ReadsSentinels
    /\ chunk = 1
    /\ Len(Successes) = 2
    /\ Successes[1].Values[1] = <<B.a, NL, Minus, Minus, Minus, NL, B.b>>
    /\ Successes[2].Values[1] = <<NL, Minus, Minus, Minus, NL>>
    /\ rd.err = "EOF"

(***************************************************************************)
(* C28.  Marshal output ends with a newline; WriteRecord adds no padding.  *)
(***************************************************************************)
\* what Record.Marshal of serialize.go gives a size-prefix Writer for rec
MarshalledForFrame == MarshalKV(AsKVRecord(rec.Entries, TRUE))

\* C28: the Marshal output of every Record with entries ends with '\n', also
\* when the last value is empty or ends in a newline; WriteRecord in
\* size-prefix mode adds no padding newline: it writes the header line and
\* then the Marshal output, len(header) + len(output) bytes.
C28_NoPadding ==
    /\ (cpc = "encoded" /\ Len(rec.Entries) > 0) =>
          /\ Last(Marshal(rec.Entries)) = NL
          /\ Last(MarshalledForFrame) = NL
          /\ Last(MarshalKV(AsKVRecord(rec.Entries, FALSE))) = NL
          /\ fromRec => Last(buf) = NL
    /\ (cpc = "written") =>
          \E m \in {MarshalledForFrame} :
              /\ Len(rec.Entries) > 0 => Last(m) = NL
              /\ \E h \in {FrameHeader(m, <<>>), FrameHeader(m, NameAB)} :
                    /\ buf = h \o m
                    /\ Len(buf) = Len(h) + Len(m)

\* a Record whose first value ends in a newline and whose last value is empty
C28_Witness ==
    /\ cpc = "written"
    /\ Len(rec.Entries) = 2
    /\ rec.Entries[1].Value = <<B.x, NL>>
    /\ rec.Entries[2].Value = <<>>
    /\ Last(buf) = NL
    /\ buf[Len(buf) - 1] # NL

(***************************************************************************)
(* C29.  What the Decoder returns.                                         *)
(***************************************************************************)
\* C29: UnmarshalRecord(d, r) returns either a record and a nil error or a
\* nil record and an error; the record returned is r itself when r is not
\* nil and a new Record when r is nil; the three assertions of
\* Record.Unmarshal never fail.
C29_ResultDiscipline ==
    /\ (cpc \in {"decoded", "decodedInto"}) =>
          /\ \/ res.kind = "rec" /\ res.ptr # "nil" /\ res.rec # NilRecord
             \/ res.kind = "err" /\ res.ptr = "nil" /\ res.rec = NilRecord
          /\ (res.kind = "rec" /\ cpc = "decodedInto") =>
                (res.ptr = "r" /\ res.rec = res.target)
          /\ (res.kind = "rec" /\ cpc = "decoded") => res.ptr = "new"
    /\ (cpc = "panic") => (recCall # NoCall /\ buf = <<>>)

\* the decoder filled the Record it was given with two entries
C29_Witness ==
    /\ cpc = "decodedInto"
    /\ res.kind = "rec"
    /\ res.ptr = "r"
    /\ Len(res.rec.Entries) = 2
    /\ res.rec = res.target

(***************************************************************************)
(* C30.  intStrLen and strconv.Itoa.                                       *)
(***************************************************************************)
\* C30: intStrLen(n) is the length of strconv.Itoa(n) for every int n: 0,
\* the powers of ten and their predecessors, negative numbers, and the
\* smallest int.
C30_AsClaimed ==
    (recCall.op = "intStrLen") =>
        recCall.val = Len(ItoaInt(recCall.args[1]))

====
